---- MODULE Spec2Model ----
(***************************************************************************)
(* A model of the renderer of tobias93/racing-game.                         *)
(*                                                                         *)
(* The repository holds two backends of the same subsystem:                *)
(*   - src/renderer/main_loop.rs  (ash):     main_loop, create_device,     *)
(*                                            create_swapchain, shutdown    *)
(*   - src/renderer/renderer.rs   (vulkano): Renderer::new,                *)
(*                                            Renderer::run_event_loop      *)
(*                                                                         *)
(* Three parts of the program are modelled, each under its own             *)
(* specification over the variables of that part:                          *)
(*   SelSpec    device selection of both backends                          *)
(*   ChainSpec  swapchain configuration of both backends                   *)
(*   Spec       the frame loop of Renderer::run_event_loop                 *)
(*   LiveSpec   Spec with the fairness of a running event loop             *)
(***************************************************************************)
EXTENDS Integers, Sequences, FiniteSets, TLC

\* ------------------------------------------------------------------------
\* Bounds of the model
\* ------------------------------------------------------------------------

\* Longest enumerated list of physical devices
MaxAdapters == 2

\* Width in bits of the model's u32: arithmetic wraps at 2^U32Bits
U32Bits == 3

\* Largest ordinary (non-sentinel) extent component and window dimension
MaxDim == 2

\* Longest list of supported presentation modes
MaxModes == 3

\* Most images of a swapchain in the frame loop
MaxImages == 2

\* ------------------------------------------------------------------------
\* Option values: None is the empty sequence, Some(x) the one-element one
\* ------------------------------------------------------------------------

None == <<>>

Some(x) == <<x>>

Unwrap(o) == o[1]

\* ------------------------------------------------------------------------
\* State
\* ------------------------------------------------------------------------

VARIABLE backend         \* "ash" (main_loop.rs) or "vulkano" (renderer.rs)

\* device selection
VARIABLES
    physical_devices,    \* the enumerated adapters, in enumeration order
    selPc,               \* "off" | "start" | "device" | "failed" | "loop"
    ok_physical_devices, \* the candidates that survived both checks
    selected,            \* None or Some([physical_device, queue_family_index])
    device_created       \* a logical device exists

selVars ==
    <<physical_devices, selPc, ok_physical_devices, selected, device_created>>

\* swapchain configuration
VARIABLES
    surface_cap,            \* vk::SurfaceCapabilitiesKHR of the surface
    inner_size,             \* window.inner_size()
    surface_present_modes,  \* the supported presentation modes, as listed
    chainPc,                \* "off" | "start" | "created" | "panicked"
                            \*   | "resized" | "recreated"
    swapchain_create_info   \* None or Some(the parameters of the chain)

chainVars ==
    <<surface_cap, inner_size, surface_present_modes, chainPc,
      swapchain_create_info>>

\* the frame loop of Renderer::run_event_loop
VARIABLES
    pc,                  \* "off" | "Idle" | "Recreate" | "Acquire" | "Record"
                         \*   | "Submit" | "Panicked" | "Destroyed"
    turn,                \* the event loop's turn: "events" until
                         \*   RedrawEventsCleared was sent, then "done"
    control_flow,        \* "Poll" | "Exit"
    recreate_swapchain,  \* the resize flag
    previous_frame_end,  \* None or Some("now" | "fence")
    swap_chain,          \* [id, dimensions, num_images]
    frame_buffers,       \* one per image of the chain they were built for
    viewport,            \* viewport.dimensions
    window_size,         \* surface.window().inner_size()
    resize_pending,      \* a Resized event waits to be delivered
    acquired,            \* None or Some([image_num, chain]) of this iteration
    command_buffer,      \* None or Some([frame_buffer, viewport])
    ops,                 \* history: what this iteration has done so far
    last_ops,            \* history: what the iteration before it did
    recreation,          \* history: what the latest recreation created and
                         \*   released, in the order of its statements
    future               \* None or Some(the submission of this iteration)

loopVars ==
    <<pc, turn, control_flow, recreate_swapchain, previous_frame_end,
      swap_chain, frame_buffers, viewport, window_size, resize_pending,
      acquired, command_buffer, ops, last_ops, recreation, future>>

\* the loop's variables that belong to the frame alone
frameVars ==
    <<pc, recreate_swapchain, previous_frame_end, swap_chain, frame_buffers,
      viewport, window_size, resize_pending, acquired, command_buffer, ops,
      last_ops, recreation, future>>

\* main_loop of main_loop.rs: the objects it creates, its event loop (which
\* shares turn and control_flow with the frame loop) and shutdown
VARIABLES
    mainPc,                 \* "off" | "start" | "instance" | "surface"
                            \*   | "device" | "swapchain" | "running"
                            \*   | "shutdown" | "exited" | "panicked"
    validation,             \* cfg!(feature = "validation")
    debug_utils,            \* None or Some(the messenger)
    alive,                  \* the Vulkan objects created and not destroyed
    destroyed,              \* history: the destroy calls, in order
    swapchain_image_views,  \* the Vec of image views
    shutdown_step,          \* how far shutdown has come
    redraw_requested,       \* window.request_redraw() was called
    draws,                  \* history: the calls of app.draw
    close_requested         \* history: a CloseRequested was handled

mainVars ==
    <<mainPc, validation, debug_utils, alive, destroyed,
      swapchain_image_views, shutdown_step, redraw_requested, draws,
      close_requested>>

vars == <<backend, selVars, chainVars, loopVars, mainVars>>

\* ========================================================================
\* PART 1.  Device selection
\*   main_loop.rs  create_device   (lines 198-299)
\*   renderer.rs   Renderer::new   (lines 66-106)
\* ========================================================================

Backends == {"ash", "vulkano"}

\* vk::PhysicalDeviceType / vulkano PhysicalDeviceType
DeviceTypes == {"DISCRETE_GPU", "INTEGRATED_GPU", "VIRTUAL_GPU", "CPU", "OTHER"}

\* khr::Swapchain::name() / DeviceExtensions { khr_swapchain: true, .. }
RequiredExtensions == {"VK_KHR_swapchain"}

\* Extension sets an adapter may report. Names are matched exactly, so the
\* lower-case spelling is a different extension.
ExtensionSamples ==
    { {"VK_KHR_maintenance1", "vk_khr_swapchain"},
      {"VK_KHR_maintenance1", "VK_KHR_swapchain"} }

\* A queue family: its GRAPHICS flag and the answer to the query of its
\* presentation support for the surface, Ok(present) or, with query_fails,
\* an Err.
QueueFamily(g, p) == [graphics |-> g, present |-> p, query_fails |-> FALSE]

QueueFamilyQueryFails(g) ==
    [graphics |-> g, present |-> FALSE, query_fails |-> TRUE]

\* Queue-family lists an adapter may report, in index order.
QueueFamilySamples ==
    { << >>,
      << QueueFamily(TRUE, TRUE) >>,
      << QueueFamily(TRUE, FALSE) >>,
      << QueueFamily(TRUE, FALSE), QueueFamily(FALSE, TRUE) >>,
      << QueueFamily(FALSE, TRUE), QueueFamily(TRUE, TRUE) >>,
      << QueueFamily(TRUE, TRUE), QueueFamily(TRUE, TRUE) >>,
      << QueueFamily(FALSE, FALSE), QueueFamily(TRUE, FALSE),
         QueueFamily(TRUE, TRUE) >> }

\* The adapters the instance may enumerate.
Adapters ==
    [device_type : DeviceTypes,
     extensions : ExtensionSamples,
     queue_families : QueueFamilySamples]

AdapterLists == UNION {[1..n -> Adapters] : n \in 0..MaxAdapters}

\* Queue-family lists with a presentation-support query that fails: on the
\* family a scan would accept otherwise, on a family without graphics, and
\* on a family behind the first accepted one.
QueryFailureSamples ==
    { << QueueFamilyQueryFails(TRUE), QueueFamily(TRUE, TRUE) >>,
      << QueueFamilyQueryFails(FALSE), QueueFamily(TRUE, TRUE) >>,
      << QueueFamily(TRUE, TRUE), QueueFamilyQueryFails(TRUE) >>,
      << QueueFamilyQueryFails(TRUE) >> }

AdaptersWithQueryFailures ==
    Adapters \cup
    [device_type : DeviceTypes,
     extensions : ExtensionSamples,
     queue_families : QueryFailureSamples]

AdapterListsWithQueryFailures ==
    UNION {[1..n -> AdaptersWithQueryFailures] : n \in 0..MaxAdapters}

\* ---- shared: the rank closure of sort_by_key / min_by_key ---------------

DeviceTypeRank(device_type) ==
    CASE device_type = "DISCRETE_GPU" -> 0
      [] device_type = "INTEGRATED_GPU" -> 1
      [] device_type = "VIRTUAL_GPU" -> 2
      [] device_type = "CPU" -> 3
      [] OTHER -> 4

\* ---- main_loop.rs create_device ----------------------------------------

\* for required_extension in required_extensions_names { any(..) }
AshSupportsExtensionsAnyCase(dev) ==
    \A required_extension \in RequiredExtensions :
        \E it \in dev.extensions :
            \/ required_extension = it
            \/ required_extension = "VK_KHR_swapchain" /\ it = "vk_khr_swapchain"

AshSupportsExtensions(dev) ==
    \A required_extension \in RequiredExtensions :
        \E it \in dev.extensions : required_extension = it

\* the closure of position(): has_graphics && supports_surface
AshQueueFamilyOkEither(queue_family) ==
    queue_family.graphics \/ queue_family.present

AshQueueFamilyOk(queue_family) ==
    queue_family.graphics /\ queue_family.present

\* get_physical_device_surface_support(..).expect(..) is evaluated for
\* every family the scan visits, before has_graphics is looked at: a
\* failing query panics unless the scan stopped at an earlier family.
RECURSIVE AshSurfaceSupportPanicsFrom(_, _)
AshSurfaceSupportPanicsFrom(queue_families, index) ==
    IF index >= Len(queue_families) THEN FALSE
    ELSE IF queue_families[index + 1].query_fails THEN TRUE
    ELSE IF AshQueueFamilyOk(queue_families[index + 1]) THEN FALSE
    ELSE AshSurfaceSupportPanicsFrom(queue_families, index + 1)

\* Iterator::position over queue_families.iter().enumerate(), 0-based:
\* the scan stops at the first family the closure accepts.
RECURSIVE AshPositionFrom(_, _)
AshPositionFrom(queue_families, index) ==
    IF index >= Len(queue_families) THEN None
    ELSE IF AshQueueFamilyOk(queue_families[index + 1]) THEN Some(index)
    ELSE AshPositionFrom(queue_families, index + 1)

AshPosition(queue_families) == AshPositionFrom(queue_families, 0)

\* the filter_map closure: None for a rejected adapter, otherwise
\* Some((physical_device, properties, queue_family_index))
AshFilterMapClosure(devs, physical_device) ==
    LET dev == devs[physical_device]
        queue_family_index == AshPosition(dev.queue_families)
    IN  IF ~AshSupportsExtensions(dev) THEN None
        ELSE IF queue_family_index # None
             THEN Some([physical_device |-> physical_device,
                        device_type |-> dev.device_type,
                        queue_family_index |-> Unwrap(queue_family_index)])
             ELSE None

\* The filter_map closure returns None for an adapter without the
\* extensions before it scans the families; collect() runs it for every
\* adapter, so the panic of any scan is the panic of create_device.
AshCreateDevicePanics(devs) ==
    \E physical_device \in 1..Len(devs) :
        /\ AshSupportsExtensions(devs[physical_device])
        /\ AshSurfaceSupportPanicsFrom(devs[physical_device].queue_families, 0)

\* .filter_map(..).collect::<Vec<_>>(): the survivors, in enumeration order
RECURSIVE AshCollectFrom(_, _)
AshCollectFrom(devs, physical_device) ==
    IF physical_device > Len(devs) THEN << >>
    ELSE AshFilterMapClosure(devs, physical_device)
            \o AshCollectFrom(devs, physical_device + 1)

AshOkPhysicalDevices(devs) == AshCollectFrom(devs, 1)

\* One insertion of a stable sort: x goes behind every element whose key is
\* not greater than its own.
RECURSIVE InsertByKey(_, _)
InsertByKey(sorted, x) ==
    IF sorted = << >> THEN << x >>
    ELSE IF DeviceTypeRank(x.device_type) < DeviceTypeRank(Head(sorted).device_type)
         THEN << x >> \o sorted
         ELSE << Head(sorted) >> \o InsertByKey(Tail(sorted), x)

RECURSIVE SortFrom(_, _, _)
SortFrom(v, i, sorted) ==
    IF i > Len(v) THEN sorted
    ELSE SortFrom(v, i + 1, InsertByKey(sorted, v[i]))

\* The same sort without stability: equal keys end in reverse order.
RECURSIVE InsertByKeyUnstable(_, _)
InsertByKeyUnstable(sorted, x) ==
    IF sorted = << >> THEN << x >>
    ELSE IF DeviceTypeRank(x.device_type) <= DeviceTypeRank(Head(sorted).device_type)
         THEN << x >> \o sorted
         ELSE << Head(sorted) >> \o InsertByKeyUnstable(Tail(sorted), x)

RECURSIVE SortFromUnstable(_, _, _)
SortFromUnstable(v, i, sorted) ==
    IF i > Len(v) THEN sorted
    ELSE SortFromUnstable(v, i + 1, InsertByKeyUnstable(sorted, v[i]))

SortByKeyUnstable(v) == SortFromUnstable(v, 1, << >>)

\* slice::sort_by_key: a stable sort by the rank of the device type
SortByKey(v) == SortFrom(v, 1, << >>)

\* ok_physical_devices.first(): None when no adapter survived
AshFirst(v) == IF v = << >> THEN None ELSE Some(v[1])

\* create_device up to the .expect(): the sorted candidates and the chosen
\* one, or None
AshSorted(devs) == SortByKey(AshOkPhysicalDevices(devs))

AshSelect(devs) == AshFirst(AshSorted(devs))

\* ---- renderer.rs Renderer::new -----------------------------------------

\* dev.supported_extensions().is_superset_of(&device_extensions)
VulkanoSupportsExtensions(dev) == RequiredExtensions \subseteq dev.extensions

\* the closure of find():
\* supports_graphics() && is_supported(family).unwrap_or(false)
VulkanoQueueFamilyOk(family) ==
    family.graphics /\ (IF family.query_fails THEN FALSE ELSE family.present)

\* Iterator::find over dev.queue_families(): the first family accepted,
\* named by its id (its 0-based index)
RECURSIVE VulkanoFindFrom(_, _)
VulkanoFindFrom(queue_families, id) ==
    IF id >= Len(queue_families) THEN None
    ELSE IF VulkanoQueueFamilyOk(queue_families[id + 1]) THEN Some(id)
    ELSE VulkanoFindFrom(queue_families, id + 1)

\* .filter(..).filter_map(..): the (dev, queue family) pairs that survive
RECURSIVE VulkanoCandidatesFrom(_, _)
VulkanoCandidatesFrom(devs, physical) ==
    IF physical > Len(devs) THEN << >>
    ELSE LET dev == devs[physical]
             family == VulkanoFindFrom(dev.queue_families, 0)
             rest == VulkanoCandidatesFrom(devs, physical + 1)
         IN  IF ~VulkanoSupportsExtensions(dev) THEN rest
             ELSE IF family = None THEN rest
             ELSE << [physical_device |-> physical,
                      device_type |-> dev.device_type,
                      queue_family_index |-> Unwrap(family)] >> \o rest

\* Iterator::min_by_key is a reduce that replaces the element held only
\* when the next one compares strictly less (Ordering::Greater => y).
RECURSIVE MinByKeyFrom(_, _, _)
MinByKeyFrom(v, i, best) ==
    IF i > Len(v) THEN best
    ELSE MinByKeyFrom(v, i + 1,
            IF DeviceTypeRank(best.device_type) > DeviceTypeRank(v[i].device_type)
            THEN v[i] ELSE best)

MinByKey(v) == IF v = << >> THEN None ELSE Some(MinByKeyFrom(v, 2, v[1]))

VulkanoCandidates(devs) == VulkanoCandidatesFrom(devs, 1)

\* Renderer::new up to the .context(..)?: the chosen candidate or None
VulkanoSelect(devs) == MinByKey(VulkanoCandidates(devs))

\* ---- the actions -------------------------------------------------------

\* main_loop.rs create_device: the whole function. A failing query and a
\* missing candidate panic in their .expect(); otherwise the logical device
\* is created.
CreateDevice ==
    /\ backend = "ash"
    /\ selPc = "start"
    /\ ok_physical_devices' =
            (IF AshCreateDevicePanics(physical_devices) THEN << >>
             ELSE AshSorted(physical_devices))
    /\ LET chosen == IF AshCreateDevicePanics(physical_devices) THEN None
                     ELSE AshSelect(physical_devices)
       IN  /\ selected' = chosen
           /\ IF chosen = None
              THEN selPc' = "failed" /\ device_created' = FALSE
              ELSE selPc' = "device" /\ device_created' = TRUE
    /\ UNCHANGED <<backend, physical_devices>>

\* renderer.rs Renderer::new, lines 66-106. A missing candidate returns
\* the error through `?`; otherwise Device::new creates the device.
RendererNew ==
    /\ backend = "vulkano"
    /\ selPc = "start"
    /\ ok_physical_devices' = VulkanoCandidates(physical_devices)
    /\ LET chosen == VulkanoSelect(physical_devices)
       IN  /\ selected' = chosen
           /\ IF chosen = None
              THEN selPc' = "failed" /\ device_created' = FALSE
              ELSE selPc' = "device" /\ device_created' = TRUE
    /\ UNCHANGED <<backend, physical_devices>>

\* event_loop.run(..) of main_loop / run_event_loop(self): reached only
\* with the device (and, for vulkano, the Renderer) in hand.
EnterEventLoop ==
    /\ selPc = "device"
    /\ selPc' = "loop"
    /\ UNCHANGED <<backend, physical_devices, ok_physical_devices, selected,
                   device_created>>

SelStep == CreateDevice \/ RendererNew \/ EnterEventLoop

\* ========================================================================
\* PART 2.  Swapchain configuration
\*   main_loop.rs  create_swapchain  (lines 301-415)
\*   renderer.rs   Renderer::new     (lines 108-117)
\*   renderer.rs   run_event_loop    (lines 181-191, the recreation)
\* ========================================================================

\* u32::MAX of the model's u32
U32_MAX == 2 ^ U32Bits - 1

\* the value a release build keeps of an overflowing u32 sum
Wrap(x) == x % (U32_MAX + 1)

\* vk::PresentModeKHR
PresentModes ==
    {"IMMEDIATE", "MAILBOX", "FIFO", "FIFO_RELAXED", "SHARED_DEMAND_REFRESH",
     "SHARED_CONTINUOUS_REFRESH"}

Extent2D(w, h) == [width |-> w, height |-> h]

\* surface_present_modes.contains(&mode)
Contains(v, x) == \E i \in 1..Len(v) : v[i] = x

\* The chain of main_loop.rs 322-334 with MAILBOX tried before FIFO.
PresentationModeMailboxFirst(modes) ==
    IF Contains(modes, "MAILBOX") THEN Some("MAILBOX")
    ELSE IF Contains(modes, "FIFO") THEN Some("FIFO")
    ELSE IF Contains(modes, "FIFO_RELAXED") THEN Some("FIFO_RELAXED")
    ELSE IF Contains(modes, "IMMEDIATE") THEN Some("IMMEDIATE")
    ELSE IF modes = << >> THEN None
    ELSE Some(modes[1])

\* main_loop.rs 322-334: None stands for the panic of
\* .first().expect("No supported presentation modes")
PresentationMode(modes) ==
    IF Contains(modes, "FIFO") THEN Some("FIFO")
    ELSE IF Contains(modes, "MAILBOX") THEN Some("MAILBOX")
    ELSE IF Contains(modes, "FIFO_RELAXED") THEN Some("FIFO_RELAXED")
    ELSE IF Contains(modes, "IMMEDIATE") THEN Some("IMMEDIATE")
    ELSE IF modes = << >> THEN None
    ELSE Some(modes[1])

\* u32::min
MinU32(a, b) == IF a <= b THEN a ELSE b

\* main_loop.rs 337-340. min_image_count + 1 overflows for u32::MAX: a
\* build with overflow checks panics (None), one without them wraps.
ImageCount(cap, overflow_checks) ==
    LET sum == cap.min_image_count + 1
    IN  IF sum > U32_MAX /\ overflow_checks THEN None
        ELSE IF cap.max_image_count # 0
             THEN Some(MinU32(Wrap(sum), cap.max_image_count))
             ELSE Some(Wrap(sum))

\* Ord::clamp: asserts min <= max (None stands for the panic)
Clamp(x, min, max) ==
    IF min > max THEN None
    ELSE IF x < min THEN Some(min)
    ELSE IF x > max THEN Some(max)
    ELSE Some(x)

\* The test of main_loop.rs 342-343 with || in the place of &&.
IsUndefinedExtentEither(cap) ==
    cap.current_extent.width = U32_MAX \/ cap.current_extent.height = U32_MAX

\* main_loop.rs 342-343
IsUndefinedExtent(cap) ==
    cap.current_extent.width = U32_MAX /\ cap.current_extent.height = U32_MAX

\* main_loop.rs 342-360: (extent_x, extent_y)
ResolveExtent(cap, size) ==
    IF IsUndefinedExtent(cap)
    THEN LET x == Clamp(size.width, cap.min_image_extent.width,
                        cap.max_image_extent.width)
             y == Clamp(size.height, cap.min_image_extent.height,
                        cap.max_image_extent.height)
         IN  IF x = None \/ y = None THEN None
             ELSE Some(Extent2D(Unwrap(x), Unwrap(y)))
    ELSE Some(Extent2D(cap.current_extent.width, cap.current_extent.height))

\* main_loop.rs create_swapchain: the whole function, up to the create
\* info it hands to create_swapchain. Any panic on the way ends it.
CreateSwapchain ==
    /\ backend = "ash"
    /\ chainPc = "start"
    /\ \E overflow_checks \in BOOLEAN :
        LET presentation_mode == PresentationMode(surface_present_modes)
            image_count == ImageCount(surface_cap, overflow_checks)
            extent == ResolveExtent(surface_cap, inner_size)
        IN  IF presentation_mode = None \/ image_count = None \/ extent = None
            THEN /\ chainPc' = "panicked"
                 /\ swapchain_create_info' = None
            ELSE /\ chainPc' = "created"
                 /\ swapchain_create_info' =
                        Some([min_image_count |-> Unwrap(image_count),
                              image_extent |-> Unwrap(extent),
                              present_mode |-> Unwrap(presentation_mode)])
    /\ UNCHANGED <<backend, surface_cap, inner_size, surface_present_modes>>

\* caps.max_image_count.unwrap_or(u32::MAX): vulkano reports a maximum of
\* zero as None
MaxImageCountOrMax(cap) ==
    IF cap.max_image_count = 0 THEN U32_MAX ELSE cap.max_image_count

\* renderer.rs 113-116: 2.clamp(min_image_count, max_image_count or MAX)
NumImages(cap) == Clamp(2, cap.min_image_count, MaxImageCountOrMax(cap))

\* renderer.rs Renderer::new, lines 108-117: the swapchain builder with
\* the window's inner size as dimensions.
RendererNewSwapchain ==
    /\ backend = "vulkano"
    /\ chainPc = "start"
    /\ LET num_images == NumImages(surface_cap)
       IN  IF num_images = None
           THEN /\ chainPc' = "panicked"
                /\ swapchain_create_info' = None
           ELSE /\ chainPc' = "created"
                /\ swapchain_create_info' =
                        Some([min_image_count |-> Unwrap(num_images),
                              image_extent |-> inner_size])
    /\ UNCHANGED <<backend, surface_cap, inner_size, surface_present_modes>>

\* The window is resized (WindowEvent::Resized, renderer.rs 174).
ChainWindowResized ==
    /\ backend = "vulkano"
    /\ chainPc = "created"
    /\ \E w, h \in 0..MaxDim :
        /\ Extent2D(w, h) # inner_size
        /\ inner_size' = Extent2D(w, h)
    /\ chainPc' = "resized"
    /\ UNCHANGED <<backend, surface_cap, surface_present_modes,
                   swapchain_create_info>>

\* renderer.rs 182-186: swap_chain.recreate().dimensions(inner_size): the
\* builder keeps every parameter of the old chain but the dimensions.
RecreateSwapchain ==
    /\ backend = "vulkano"
    /\ chainPc = "resized"
    /\ chainPc' = "recreated"
    /\ swapchain_create_info' =
            Some([Unwrap(swapchain_create_info) EXCEPT
                    !.image_extent = inner_size])
    /\ UNCHANGED <<backend, surface_cap, inner_size, surface_present_modes>>

ChainStep ==
    \/ CreateSwapchain
    \/ RendererNewSwapchain
    \/ ChainWindowResized
    \/ RecreateSwapchain

\* ---- the surfaces and windows the model draws from ---------------------

DefaultCap ==
    [min_image_count |-> 2,
     max_image_count |-> 0,
     current_extent |-> Extent2D(1, 1),
     min_image_extent |-> Extent2D(1, 1),
     max_image_extent |-> Extent2D(MaxDim, MaxDim)]

DefaultSize == Extent2D(1, 1)

DefaultModes == << "FIFO" >>

\* every pair of image counts
ImageCountCaps ==
    {[DefaultCap EXCEPT !.min_image_count = a, !.max_image_count = b] :
        a \in 0..U32_MAX, b \in 0..U32_MAX}

Dims == 0..MaxDim

\* every extent triple; a current extent component may be the sentinel
ExtentCaps ==
    {[DefaultCap EXCEPT !.current_extent = Extent2D(c[1], c[2]),
                        !.min_image_extent = Extent2D(lo[1], lo[2]),
                        !.max_image_extent = Extent2D(hi[1], hi[2])] :
        c \in (Dims \cup {U32_MAX}) \X (Dims \cup {U32_MAX}),
        lo \in Dims \X Dims, hi \in Dims \X Dims}

Sizes == {Extent2D(w, h) : w \in Dims, h \in Dims}

\* every list of distinct modes
ModeLists ==
    {m \in UNION {[1..n -> PresentModes] : n \in 0..MaxModes} :
        \A i, j \in 1..Len(m) : i # j => m[i] # m[j]}

\* create_swapchain reads all three inputs: each is varied in turn.
AshChainInputs ==
    (ImageCountCaps \X {DefaultSize} \X {DefaultModes})
        \cup (ExtentCaps \X Sizes \X {DefaultModes})
        \cup ({DefaultCap} \X {DefaultSize} \X ModeLists)

\* Renderer::new reads the image counts and the window size only.
VulkanoChainInputs == ImageCountCaps \X Sizes \X {DefaultModes}

\* ========================================================================
\* PART 3.  The frame loop
\*   renderer.rs  Renderer::run_event_loop        (lines 166-270)
\*   renderer.rs  window_size_dependent_setup     (lines 273-292)
\* The closure handles one event at a time; the RedrawEventsCleared arm is
\* modelled step by step (pc), and no other event is handled before it
\* returns. The window itself may change at any moment.
\* ========================================================================

\* Windows are squares of side 0..MaxDim; side 0 is a minimised window.
WindowSizes == {Extent2D(d, d) : d \in Dims}

\* SwapchainCreationError::UnsupportedDimensions (renderer.rs 189) is the
\* answer to dimensions the surface cannot take: a zero-area extent.
SupportedDimensions(size) == size.width > 0 /\ size.height > 0

\* the images of a chain: new_images of renderer.rs 182
Images(chain) ==
    [i \in 1..chain.num_images |->
        [chain |-> chain.id, index |-> i - 1, dimensions |-> chain.dimensions]]

\* window_size_dependent_setup: the viewport takes the dimensions of
\* images[0]
SetupViewport(images) == images[1].dimensions

\* window_size_dependent_setup building a frame buffer for the first image
\* only.
SetupFrameBuffersFirstOnly(images) ==
    << [image |-> images[1]] >>

\* window_size_dependent_setup: one frame buffer per image
SetupFrameBuffers(images) ==
    [i \in 1..Len(images) |-> [image |-> images[i]]]

\* swap_chain.recreate().dimensions(..).build(): a new chain of the same
\* number of images
RecreatedChain(chain, size) ==
    [id |-> 1 - chain.id, dimensions |-> size, num_images |-> chain.num_images]

Log(op) == ops' = Append(ops, op)

\* lines 182-199 in the order of their statements: recreate().build()
\* makes the new chain from the old one, the assignment of line 193
\* releases the Renderer's handle of the old chain, then
\* window_size_dependent_setup builds the new frame buffers and the
\* assignment of line 194 releases the old ones
RecreationEvents(old_swap_chain, new_swap_chain) ==
    << [op |-> "build_chain", chain |-> new_swap_chain.id],
       [op |-> "release_chain", chain |-> old_swap_chain.id],
       [op |-> "build_frame_buffers", chain |-> new_swap_chain.id],
       [op |-> "release_frame_buffers", chain |-> old_swap_chain.id] >>

\* Lines 240-251 without the join of previous_frame_end.
SubmissionFutureWithoutJoin(previous, acquire, commands, chain) ==
    << [stage |-> "wait", on |-> << [acquire_future |-> acquire] >>],
       [stage |-> "execute", on |-> commands],
       [stage |-> "present",
        on |-> [chain |-> chain.id, image_num |-> acquire.image_num]],
       [stage |-> "signal_fence", on |-> "flush"] >>

\* Line 249 presenting the first image of the chain whatever the acquire
\* returned.
SubmissionFuturePresentsFirstImage(previous, acquire, commands, chain) ==
    << [stage |-> "wait",
        on |-> << [previous_frame_end |-> previous],
                  [acquire_future |-> acquire] >>],
       [stage |-> "execute", on |-> commands],
       [stage |-> "present",
        on |-> [chain |-> chain.id, image_num |-> 0]],
       [stage |-> "signal_fence", on |-> "flush"] >>

\* lines 240-251: previous_frame_end joined with acquire_future, then the
\* command buffer, then the present of image_num on the chain, then the
\* fence and the flush
SubmissionFuture(previous, acquire, commands, chain) ==
    << [stage |-> "wait",
        on |-> << [previous_frame_end |-> previous],
                  [acquire_future |-> acquire] >>],
       [stage |-> "execute", on |-> commands],
       [stage |-> "present",
        on |-> [chain |-> chain.id, image_num |-> acquire.image_num]],
       [stage |-> "signal_fence", on |-> "flush"] >>

\* ---- events of the window (renderer.rs 172-176) ------------------------

\* WindowEvent::CloseRequested => *control_flow = ControlFlow::Exit
CloseRequested ==
    /\ pc = "Idle" /\ turn = "events"
    /\ control_flow = "Poll"
    /\ control_flow' = "Exit"
    /\ UNCHANGED <<pc, turn, recreate_swapchain, previous_frame_end,
                   swap_chain, frame_buffers, viewport, window_size,
                   resize_pending, acquired, command_buffer, ops, last_ops, recreation, future>>

\* Line 174 recreating the chain inside the event instead of setting the
\* flag.
ResizedRecreatesAtOnce ==
    /\ pc = "Idle" /\ turn = "events"
    /\ resize_pending
    /\ resize_pending' = FALSE
    /\ LET new_swap_chain == RecreatedChain(swap_chain, window_size)
           new_images == Images(new_swap_chain)
       IN  /\ swap_chain' = new_swap_chain
           /\ frame_buffers' = SetupFrameBuffers(new_images)
           /\ viewport' = SetupViewport(new_images)
    /\ UNCHANGED <<pc, turn, control_flow, recreate_swapchain,
                   previous_frame_end, window_size, acquired,
                   command_buffer, ops, last_ops, recreation, future>>

\* WindowEvent::Resized(..) => recreate_swapchain = true
Resized ==
    /\ pc = "Idle" /\ turn = "events"
    /\ resize_pending
    /\ resize_pending' = FALSE
    /\ recreate_swapchain' = TRUE
    /\ UNCHANGED <<pc, turn, control_flow, previous_frame_end, swap_chain,
                   frame_buffers, viewport, window_size, acquired,
                   command_buffer, ops, last_ops, recreation, future>>

\* The user or the window manager resizes the window: inner_size() answers
\* the new size at once and a Resized event is queued.
WindowChanges ==
    /\ pc \in {"Idle", "Recreate", "Acquire", "Record", "Submit"}
    /\ \E size \in WindowSizes \ {window_size} : window_size' = size
    /\ resize_pending' = TRUE
    /\ UNCHANGED <<pc, turn, control_flow, recreate_swapchain,
                   previous_frame_end, swap_chain, frame_buffers, viewport,
                   acquired, command_buffer, ops, last_ops, recreation, future>>

\* ---- Event::RedrawEventsCleared (renderer.rs 177-267) ------------------

\* line 178: previous_frame_end.as_mut().unwrap().cleanup_finished()
RedrawEventsCleared ==
    /\ pc = "Idle" /\ turn = "events"
    /\ turn' = "done"
    /\ last_ops' = ops
    /\ acquired' = None
    /\ command_buffer' = None
    /\ future' = None
    /\ IF previous_frame_end = None
       THEN pc' = "Panicked" /\ ops' = << "cleanup_panic" >>
       ELSE pc' = "Recreate" /\ ops' = << "cleanup" >>
    /\ UNCHANGED <<control_flow, recreate_swapchain, previous_frame_end,
                   swap_chain, frame_buffers, viewport, window_size,
                   resize_pending, recreation>>

\* line 181: the flag is not set, nothing is recreated
SkipRecreate ==
    /\ pc = "Recreate"
    /\ ~recreate_swapchain
    /\ pc' = "Acquire"
    /\ UNCHANGED <<turn, control_flow, recreate_swapchain, previous_frame_end,
                   swap_chain, frame_buffers, viewport, window_size,
                   resize_pending, acquired, command_buffer, ops, last_ops, recreation, future>>

\* Lines 188-200 without line 200: the flag is left set.
RecreateOkKeepsFlag ==
    /\ pc = "Recreate"
    /\ recreate_swapchain
    /\ SupportedDimensions(window_size)
    /\ LET new_swap_chain == RecreatedChain(swap_chain, window_size)
           new_images == Images(new_swap_chain)
       IN  /\ swap_chain' = new_swap_chain
           /\ frame_buffers' = SetupFrameBuffers(new_images)
           /\ viewport' = SetupViewport(new_images)
           /\ recreation' = RecreationEvents(swap_chain, new_swap_chain)
    /\ pc' = "Acquire"
    /\ Log("recreate_ok")
    /\ UNCHANGED <<turn, control_flow, recreate_swapchain, previous_frame_end,
                   window_size, resize_pending, acquired, command_buffer,
                   last_ops, future>>

\* Lines 193-200 with window_size_dependent_setup leaving the viewport as
\* it was.
RecreateOkKeepsViewport ==
    /\ pc = "Recreate"
    /\ recreate_swapchain
    /\ SupportedDimensions(window_size)
    /\ LET new_swap_chain == RecreatedChain(swap_chain, window_size)
           new_images == Images(new_swap_chain)
       IN  /\ swap_chain' = new_swap_chain
           /\ frame_buffers' = SetupFrameBuffers(new_images)
           /\ recreation' = RecreationEvents(swap_chain, new_swap_chain)
    /\ recreate_swapchain' = FALSE
    /\ pc' = "Acquire"
    /\ Log("recreate_ok")
    /\ UNCHANGED <<turn, control_flow, previous_frame_end, window_size,
                   viewport, resize_pending, acquired, command_buffer,
                   last_ops, future>>

\* lines 182-200, Ok(r): the chain, the frame buffers and the viewport are
\* replaced and the flag is cleared
RecreateOk ==
    /\ pc = "Recreate"
    /\ recreate_swapchain
    /\ SupportedDimensions(window_size)
    /\ LET new_swap_chain == RecreatedChain(swap_chain, window_size)
           new_images == Images(new_swap_chain)
       IN  /\ swap_chain' = new_swap_chain
           /\ frame_buffers' = SetupFrameBuffers(new_images)
           /\ viewport' = SetupViewport(new_images)
           /\ recreation' = RecreationEvents(swap_chain, new_swap_chain)
    /\ recreate_swapchain' = FALSE
    /\ pc' = "Acquire"
    /\ Log("recreate_ok")
    /\ UNCHANGED <<turn, control_flow, previous_frame_end, window_size,
                   resize_pending, acquired, command_buffer, last_ops, future>>

\* Line 189 going on to the acquire instead of returning.
RecreateUnsupportedGoesOn ==
    /\ pc = "Recreate"
    /\ recreate_swapchain
    /\ ~SupportedDimensions(window_size)
    /\ pc' = "Acquire"
    /\ Log("recreate_unsupported")
    /\ UNCHANGED <<turn, control_flow, recreate_swapchain, previous_frame_end,
                   swap_chain, frame_buffers, viewport, window_size,
                   resize_pending, acquired, command_buffer, last_ops, recreation, future>>

\* Line 189 clearing the flag before it returns.
RecreateUnsupportedClearsFlag ==
    /\ pc = "Recreate"
    /\ recreate_swapchain
    /\ ~SupportedDimensions(window_size)
    /\ recreate_swapchain' = FALSE
    /\ pc' = "Idle"
    /\ Log("recreate_unsupported")
    /\ UNCHANGED <<turn, control_flow, previous_frame_end, swap_chain,
                   frame_buffers, viewport, window_size, resize_pending,
                   acquired, command_buffer, last_ops, recreation, future>>

\* Line 189 dropping the frame buffers of the chain before it returns.
RecreateUnsupportedDropsFrameBuffers ==
    /\ pc = "Recreate"
    /\ recreate_swapchain
    /\ ~SupportedDimensions(window_size)
    /\ frame_buffers' = << >>
    /\ pc' = "Idle"
    /\ Log("recreate_unsupported")
    /\ UNCHANGED <<turn, control_flow, recreate_swapchain, previous_frame_end,
                   swap_chain, viewport, window_size, resize_pending,
                   acquired, command_buffer, last_ops, recreation, future>>

\* line 189, Err(UnsupportedDimensions) => return
RecreateUnsupported ==
    /\ pc = "Recreate"
    /\ recreate_swapchain
    /\ ~SupportedDimensions(window_size)
    /\ pc' = "Idle"
    /\ Log("recreate_unsupported")
    /\ UNCHANGED <<turn, control_flow, recreate_swapchain, previous_frame_end,
                   swap_chain, frame_buffers, viewport, window_size,
                   resize_pending, acquired, command_buffer, last_ops, recreation, future>>

\* line 190, Err(e) => panic!, and the unwrap of line 199
RecreatePanic ==
    /\ pc = "Recreate"
    /\ recreate_swapchain
    /\ pc' = "Panicked"
    /\ Log("recreate_panic")
    /\ UNCHANGED <<turn, control_flow, recreate_swapchain, previous_frame_end,
                   swap_chain, frame_buffers, viewport, window_size,
                   resize_pending, acquired, command_buffer, last_ops, recreation, future>>

\* Lines 204-218 without lines 216-218: a suboptimal chain does not set the
\* flag.
AcquireOkIgnoresSuboptimal ==
    /\ pc = "Acquire"
    /\ \E image_num \in 0..(swap_chain.num_images - 1), suboptimal \in BOOLEAN :
        /\ acquired' = Some([image_num |-> image_num, chain |-> swap_chain.id])
        /\ Log(IF suboptimal THEN "acquire_suboptimal" ELSE "acquire_ok")
    /\ pc' = "Record"
    /\ UNCHANGED <<turn, control_flow, recreate_swapchain, previous_frame_end,
                   swap_chain, frame_buffers, viewport, window_size,
                   resize_pending, command_buffer, last_ops, recreation, future>>

\* lines 204-218, Ok(r): an image of the chain is acquired; a suboptimal
\* chain sets the flag
AcquireOk ==
    /\ pc = "Acquire"
    /\ \E image_num \in 0..(swap_chain.num_images - 1), suboptimal \in BOOLEAN :
        /\ acquired' = Some([image_num |-> image_num, chain |-> swap_chain.id])
        /\ recreate_swapchain' = (IF suboptimal THEN TRUE ELSE recreate_swapchain)
        /\ Log(IF suboptimal THEN "acquire_suboptimal" ELSE "acquire_ok")
    /\ pc' = "Record"
    /\ UNCHANGED <<turn, control_flow, previous_frame_end, swap_chain,
                   frame_buffers, viewport, window_size, resize_pending,
                   command_buffer, last_ops, recreation, future>>

\* Lines 210-213 without line 211: the flag is not set.
AcquireOutOfDateNoFlag ==
    /\ pc = "Acquire"
    /\ pc' = "Idle"
    /\ Log("acquire_out_of_date")
    /\ UNCHANGED <<turn, control_flow, recreate_swapchain, previous_frame_end,
                   swap_chain, frame_buffers, viewport, window_size,
                   resize_pending, acquired, command_buffer, last_ops, recreation, future>>

\* lines 210-213, Err(AcquireError::OutOfDate): set the flag and return
AcquireOutOfDate ==
    /\ pc = "Acquire"
    /\ recreate_swapchain' = TRUE
    /\ pc' = "Idle"
    /\ Log("acquire_out_of_date")
    /\ UNCHANGED <<turn, control_flow, previous_frame_end, swap_chain,
                   frame_buffers, viewport, window_size, resize_pending,
                   acquired, command_buffer, last_ops, recreation, future>>

\* Line 214 returning from the handler instead of panicking.
AcquireErrorAbsorbed ==
    /\ pc = "Acquire"
    /\ pc' = "Idle"
    /\ Log("acquire_panic")
    /\ UNCHANGED <<turn, control_flow, recreate_swapchain, previous_frame_end,
                   swap_chain, frame_buffers, viewport, window_size,
                   resize_pending, acquired, command_buffer, last_ops, recreation, future>>

\* line 214, Err(e) => panic!
AcquirePanic ==
    /\ pc = "Acquire"
    /\ pc' = "Panicked"
    /\ Log("acquire_panic")
    /\ UNCHANGED <<turn, control_flow, recreate_swapchain, previous_frame_end,
                   swap_chain, frame_buffers, viewport, window_size,
                   resize_pending, acquired, command_buffer, last_ops, recreation, future>>

\* lines 219-239: the command buffer draws into frame_buffers[image_num]
\* with the viewport; indexing past the end panics
Record ==
    /\ pc = "Record"
    /\ LET image_num == Unwrap(acquired).image_num
       IN  IF image_num + 1 > Len(frame_buffers)
           THEN /\ pc' = "Panicked"
                /\ command_buffer' = None
                /\ Log("record_panic")
           ELSE /\ pc' = "Submit"
                /\ command_buffer' =
                        Some([frame_buffer |-> frame_buffers[image_num + 1],
                              viewport |-> viewport])
                /\ Log("record")
    /\ UNCHANGED <<turn, control_flow, recreate_swapchain, previous_frame_end,
                   swap_chain, frame_buffers, viewport, window_size,
                   resize_pending, acquired, last_ops, recreation, future>>

\* lines 219-239: one of the unwraps of the builder panics
RecordPanic ==
    /\ pc = "Record"
    /\ pc' = "Panicked"
    /\ Log("record_panic")
    /\ UNCHANGED <<turn, control_flow, recreate_swapchain, previous_frame_end,
                   swap_chain, frame_buffers, viewport, window_size,
                   resize_pending, acquired, command_buffer, last_ops, recreation, future>>

\* lines 240-245: previous_frame_end.take(), then the unwrap of
\* then_execute panics
ExecutePanic ==
    /\ pc = "Submit"
    /\ previous_frame_end' = None
    /\ pc' = "Panicked"
    /\ Log("execute_panic")
    /\ UNCHANGED <<turn, control_flow, recreate_swapchain, swap_chain,
                   frame_buffers, viewport, window_size, resize_pending,
                   acquired, command_buffer, last_ops, recreation, future>>

\* lines 240-255, Ok(future): the frame is executed and presented, its
\* fence becomes previous_frame_end
FlushOk ==
    /\ pc = "Submit"
    /\ previous_frame_end # None
    /\ previous_frame_end' = Some("fence")
    /\ future' = Some(SubmissionFuture(Unwrap(previous_frame_end),
                                        Unwrap(acquired),
                                        Unwrap(command_buffer), swap_chain))
    /\ pc' = "Idle"
    /\ Log("submit_ok")
    /\ UNCHANGED <<turn, control_flow, recreate_swapchain, swap_chain,
                   frame_buffers, viewport, window_size, resize_pending,
                   acquired, command_buffer, last_ops, recreation>>

\* Lines 256-260 without the reset of previous_frame_end.
FlushOutOfDateNoReset ==
    /\ pc = "Submit"
    /\ previous_frame_end # None
    /\ recreate_swapchain' = TRUE
    /\ previous_frame_end' = None
    /\ future' = Some(SubmissionFuture(Unwrap(previous_frame_end),
                                        Unwrap(acquired),
                                        Unwrap(command_buffer), swap_chain))
    /\ pc' = "Idle"
    /\ Log("submit_out_of_date")
    /\ UNCHANGED <<turn, control_flow, swap_chain, frame_buffers, viewport,
                   window_size, resize_pending, acquired, command_buffer,
                   last_ops, recreation>>

\* lines 256-260, Err(FlushError::OutOfDate)
FlushOutOfDate ==
    /\ pc = "Submit"
    /\ previous_frame_end # None
    /\ recreate_swapchain' = TRUE
    /\ previous_frame_end' = Some("now")
    /\ future' = Some(SubmissionFuture(Unwrap(previous_frame_end),
                                        Unwrap(acquired),
                                        Unwrap(command_buffer), swap_chain))
    /\ pc' = "Idle"
    /\ Log("submit_out_of_date")
    /\ UNCHANGED <<turn, control_flow, swap_chain, frame_buffers, viewport,
                   window_size, resize_pending, acquired, command_buffer,
                   last_ops, recreation>>

\* Lines 261-265 without the reset of previous_frame_end.
FlushFailedNoReset ==
    /\ pc = "Submit"
    /\ previous_frame_end # None
    /\ previous_frame_end' = None
    /\ future' = Some(SubmissionFuture(Unwrap(previous_frame_end),
                                        Unwrap(acquired),
                                        Unwrap(command_buffer), swap_chain))
    /\ pc' = "Idle"
    /\ Log("submit_failed")
    /\ UNCHANGED <<turn, control_flow, recreate_swapchain, swap_chain,
                   frame_buffers, viewport, window_size, resize_pending,
                   acquired, command_buffer, last_ops, recreation>>

\* lines 261-265, Err(e): printed, previous_frame_end is reset
FlushFailed ==
    /\ pc = "Submit"
    /\ previous_frame_end # None
    /\ previous_frame_end' = Some("now")
    /\ future' = Some(SubmissionFuture(Unwrap(previous_frame_end),
                                        Unwrap(acquired),
                                        Unwrap(command_buffer), swap_chain))
    /\ pc' = "Idle"
    /\ Log("submit_failed")
    /\ UNCHANGED <<turn, control_flow, recreate_swapchain, swap_chain,
                   frame_buffers, viewport, window_size, resize_pending,
                   acquired, command_buffer, last_ops, recreation>>

\* ---- the event loop around the closure (renderer.rs 170-171) -----------

\* The turn is over and the loop polls again.
NextTurn ==
    /\ pc = "Idle" /\ turn = "done"
    /\ control_flow = "Poll"
    /\ turn' = "events"
    /\ UNCHANGED <<pc, control_flow, recreate_swapchain, previous_frame_end,
                   swap_chain, frame_buffers, viewport, window_size,
                   resize_pending, acquired, command_buffer, ops, last_ops, recreation, future>>

\* ControlFlow::Exit ends the loop: at the end of the turn, or before the
\* rest of the turn's events are sent.
LoopDestroyed ==
    /\ pc = "Idle"
    /\ control_flow = "Exit"
    /\ pc' = "Destroyed"
    /\ UNCHANGED <<turn, control_flow, recreate_swapchain, previous_frame_end,
                   swap_chain, frame_buffers, viewport, window_size,
                   resize_pending, acquired, command_buffer, ops, last_ops, recreation, future>>

\* the steps of the RedrawEventsCleared arm once it has started
HandlerStep ==
    \/ SkipRecreate \/ RecreateOk \/ RecreateUnsupported \/ RecreatePanic
    \/ AcquireOk \/ AcquireOutOfDate \/ AcquirePanic
    \/ Record \/ RecordPanic
    \/ ExecutePanic \/ FlushOk \/ FlushOutOfDate \/ FlushFailed

\* ========================================================================
\* PART 4.  main_loop of main_loop.rs: start, event loop, shutdown
\*   main_loop.rs  main_loop        (lines 39-110)
\*   main_loop.rs  create_instance  (lines 113-172)
\*   main_loop.rs  shutdown         (lines 174-196)
\* The handles are raw Vulkan handles: nothing destroys them but the calls
\* of shutdown. A panic (an expect that fails, a panic of app.draw) ends
\* the program without any of these calls.
\* ========================================================================

Object(kind, index) == [kind |-> kind, index |-> index]

\* the image views that create_swapchain collects, one per image
ImageViews(n) == [i \in 1..n |-> Object("image_view", i)]

Range(seq) == {seq[i] : i \in 1..Len(seq)}

\* lines 54-55: create_instance; with the validation feature it installs
\* the debug messenger after the instance exists
CreateInstance ==
    /\ mainPc = "start"
    /\ \E outcome \in {"ok", "no_instance", "no_messenger"} :
        CASE outcome = "ok" ->
                /\ mainPc' = "instance"
                /\ alive' = alive \cup {Object("instance", 0)} \cup
                        (IF validation
                         THEN {Object("debug_utils_messenger", 0)} ELSE {})
                /\ debug_utils' =
                        (IF validation
                         THEN Some(Object("debug_utils_messenger", 0))
                         ELSE None)
          [] outcome = "no_instance" ->
                /\ mainPc' = "panicked"
                /\ UNCHANGED <<alive, debug_utils>>
          [] outcome = "no_messenger" ->
                /\ validation
                /\ mainPc' = "panicked"
                /\ alive' = alive \cup {Object("instance", 0)}
                /\ UNCHANGED debug_utils
    /\ UNCHANGED <<validation, destroyed, swapchain_image_views,
                   shutdown_step, redraw_requested, draws, close_requested>>

\* lines 61-62: ash_window::create_surface(..).expect(..)
CreateSurface ==
    /\ mainPc = "instance"
    /\ \E created \in BOOLEAN :
        IF created
        THEN /\ mainPc' = "surface"
             /\ alive' = alive \cup {Object("surface", 0)}
        ELSE /\ mainPc' = "panicked"
             /\ UNCHANGED alive
    /\ UNCHANGED <<validation, debug_utils, destroyed, swapchain_image_views,
                   shutdown_step, redraw_requested, draws, close_requested>>

\* line 65: create_device, which panics when no adapter is compatible or
\* the device cannot be created
MainLoopCreateDevice ==
    /\ mainPc = "surface"
    /\ \E created \in BOOLEAN :
        IF created
        THEN /\ mainPc' = "device"
             /\ alive' = alive \cup {Object("device", 0)}
        ELSE /\ mainPc' = "panicked"
             /\ UNCHANGED alive
    /\ UNCHANGED <<validation, debug_utils, destroyed, swapchain_image_views,
                   shutdown_step, redraw_requested, draws, close_requested>>

\* lines 71-78: create_swapchain; it panics before the chain exists, or
\* with the chain and the image views created so far when a view fails
MainLoopCreateSwapchain ==
    /\ mainPc = "device"
    /\ \E n \in 1..MaxImages, views \in 0..MaxImages, chain \in BOOLEAN :
        /\ views <= n
        /\ IF chain /\ views = n
           THEN /\ mainPc' = "swapchain"
                /\ swapchain_image_views' = ImageViews(n)
           ELSE /\ n = MaxImages
                /\ chain \/ views = 0
                /\ mainPc' = "panicked"
                /\ UNCHANGED swapchain_image_views
        /\ alive' = alive \cup
                (IF chain
                 THEN {Object("swapchain", 0)} \cup Range(ImageViews(views))
                 ELSE {})
    /\ UNCHANGED <<validation, debug_utils, destroyed, shutdown_step,
                   redraw_requested, draws, close_requested>>

\* line 84: event_loop.run(..)
RunEventLoop ==
    /\ mainPc = "swapchain"
    /\ mainPc' = "running"
    /\ turn' = "events"
    /\ UNCHANGED <<control_flow, validation, debug_utils, alive, destroyed,
                   swapchain_image_views, shutdown_step, redraw_requested,
                   draws, close_requested>>

\* line 86: WindowEvent::CloseRequested => *control_flow = ControlFlow::Exit
MainLoopCloseRequested ==
    /\ mainPc = "running" /\ turn = "events"
    /\ ~close_requested
    /\ close_requested' = TRUE
    /\ control_flow' = "Exit"
    /\ UNCHANGED <<turn, mainPc, validation, debug_utils, alive, destroyed,
                   swapchain_image_views, shutdown_step, redraw_requested,
                   draws>>

\* line 89: Event::MainEventsCleared => window.request_redraw()
MainEventsCleared ==
    /\ mainPc = "running" /\ turn = "events"
    /\ turn' = "redraw"
    /\ redraw_requested' = TRUE
    /\ UNCHANGED <<control_flow, mainPc, validation, debug_utils, alive,
                   destroyed, swapchain_image_views, shutdown_step, draws,
                   close_requested>>

\* lines 90-93: Event::RedrawRequested => app.draw(..), then
\* *control_flow = ControlFlow::Exit; app.draw is the caller's and may panic
RedrawRequested ==
    /\ mainPc = "running" /\ turn = "redraw"
    /\ redraw_requested
    /\ redraw_requested' = FALSE
    /\ UNCHANGED turn
    /\ \E returns \in BOOLEAN :
        IF returns
        THEN /\ draws' = draws + 1
             /\ control_flow' = "Exit"
             /\ UNCHANGED mainPc
        ELSE /\ draws' = draws + 1
             /\ mainPc' = "panicked"
             /\ UNCHANGED control_flow
    /\ UNCHANGED <<validation, debug_utils, alive, destroyed,
                   swapchain_image_views, shutdown_step, close_requested>>

\* line 107: _ => {}. RedrawEventsCleared ends the turn, whether the
\* window system has sent the requested redraw in this turn or not.
MainLoopRedrawEventsCleared ==
    /\ mainPc = "running" /\ turn = "redraw"
    /\ turn' = "done"
    /\ UNCHANGED <<control_flow, mainVars>>

\* The turn is over and the loop polls again.
MainLoopNextTurn ==
    /\ mainPc = "running" /\ turn = "done"
    /\ control_flow = "Poll"
    /\ turn' = "events"
    /\ UNCHANGED <<control_flow, mainVars>>

\* lines 94-106: ControlFlow::Exit ends the loop, at the end of the turn or
\* before the rest of its events are sent; Event::LoopDestroyed calls
\* shutdown
MainLoopDestroyed ==
    /\ mainPc = "running"
    /\ control_flow = "Exit"
    /\ mainPc' = "shutdown"
    /\ shutdown_step' = 1
    /\ UNCHANGED <<turn, control_flow, validation, debug_utils, alive,
                   destroyed, swapchain_image_views, redraw_requested, draws,
                   close_requested>>

\* Shutdown with the device destroyed first.
ShutdownOrderDeviceFirst ==
    << "device", "image_view", "swapchain", "surface",
       "debug_utils_messenger", "instance" >>

\* lines 185-195: what shutdown destroys, in the order of its statements
ShutdownOrder ==
    << "image_view", "swapchain", "surface", "device",
       "debug_utils_messenger", "instance" >>

\* the handles one statement of shutdown destroys: every image view of the
\* Vec in its order, the messenger only if debug_utils_state holds one
ShutdownVictims(kind) ==
    CASE kind = "image_view" -> swapchain_image_views
      [] kind = "debug_utils_messenger" ->
            (IF debug_utils = None THEN << >> ELSE << Unwrap(debug_utils) >>)
      [] OTHER -> << Object(kind, 0) >>

\* shutdown, one statement at a time; the program ends after the last
Shutdown ==
    /\ mainPc = "shutdown"
    /\ LET kind == ShutdownOrder[shutdown_step]
           victims == ShutdownVictims(kind)
       IN  /\ destroyed' = destroyed \o victims
           /\ alive' = alive \ Range(victims)
           /\ debug_utils' =
                (IF kind = "debug_utils_messenger" THEN None ELSE debug_utils)
    /\ IF shutdown_step = Len(ShutdownOrder)
       THEN mainPc' = "exited" /\ UNCHANGED shutdown_step
       ELSE shutdown_step' = shutdown_step + 1 /\ UNCHANGED mainPc
    /\ UNCHANGED <<turn, control_flow, validation, swapchain_image_views,
                   redraw_requested, draws, close_requested>>

\* ========================================================================
\* Specifications
\* ========================================================================

SelOff ==
    /\ physical_devices = << >>
    /\ selPc = "off"
    /\ ok_physical_devices = << >>
    /\ selected = None
    /\ device_created = FALSE

ChainOff ==
    /\ surface_cap = DefaultCap
    /\ inner_size = DefaultSize
    /\ surface_present_modes = DefaultModes
    /\ chainPc = "off"
    /\ swapchain_create_info = None

LoopOff ==
    /\ pc = "off"
    /\ turn = "events"
    /\ control_flow = "Poll"
    /\ recreate_swapchain = FALSE
    /\ previous_frame_end = None
    /\ swap_chain = [id |-> 0, dimensions |-> DefaultSize, num_images |-> 1]
    /\ frame_buffers = << >>
    /\ viewport = DefaultSize
    /\ window_size = DefaultSize
    /\ resize_pending = FALSE
    /\ acquired = None
    /\ command_buffer = None
    /\ ops = << >>
    /\ last_ops = << >>
    /\ recreation = << >>
    /\ future = None

MainOff ==
    /\ mainPc = "off"
    /\ validation = FALSE
    /\ debug_utils = None
    /\ alive = {}
    /\ destroyed = << >>
    /\ swapchain_image_views = << >>
    /\ shutdown_step = 0
    /\ redraw_requested = FALSE
    /\ draws = 0
    /\ close_requested = FALSE

\* ---- SelSpec: device selection over every list of adapters -------------

SelInit ==
    /\ backend \in Backends
    /\ physical_devices \in AdapterLists
    /\ selPc = "start"
    /\ ok_physical_devices = << >>
    /\ selected = None
    /\ device_created = FALSE
    /\ ChainOff
    /\ LoopOff
    /\ MainOff

SelNext ==
    \/ CreateDevice /\ UNCHANGED <<chainVars, loopVars, mainVars>>
    \/ RendererNew /\ UNCHANGED <<chainVars, loopVars, mainVars>>
    \/ EnterEventLoop /\ UNCHANGED <<chainVars, loopVars, mainVars>>

SelSpec == SelInit /\ [][SelNext]_vars

\* The same start with adapters whose presentation-support query may fail.
SelQueryInit ==
    /\ backend \in Backends
    /\ physical_devices \in AdapterListsWithQueryFailures
    /\ selPc = "start"
    /\ ok_physical_devices = << >>
    /\ selected = None
    /\ device_created = FALSE
    /\ ChainOff
    /\ LoopOff
    /\ MainOff

SelQuerySpec == SelQueryInit /\ [][SelNext]_vars

\* ---- ChainSpec: swapchain configuration over surfaces and windows ------

ChainInit ==
    /\ backend \in Backends
    /\ \E in \in (IF backend = "ash" THEN AshChainInputs
                                     ELSE VulkanoChainInputs) :
        /\ surface_cap = in[1]
        /\ inner_size = in[2]
        /\ surface_present_modes = in[3]
    /\ chainPc = "start"
    /\ swapchain_create_info = None
    /\ SelOff
    /\ LoopOff
    /\ MainOff

ChainNext ==
    \/ CreateSwapchain /\ UNCHANGED <<selVars, loopVars, mainVars>>
    \/ RendererNewSwapchain /\ UNCHANGED <<selVars, loopVars, mainVars>>
    \/ ChainWindowResized /\ UNCHANGED <<selVars, loopVars, mainVars>>
    \/ RecreateSwapchain /\ UNCHANGED <<selVars, loopVars, mainVars>>

ChainSpec == ChainInit /\ [][ChainNext]_vars

\* ---- Spec: the frame loop of Renderer::run_event_loop ------------------

\* run_event_loop starts (lines 167-168) with the Renderer that
\* Renderer::new built: a chain of the window's size, its frame buffers and
\* the viewport of window_size_dependent_setup.
Init ==
    /\ backend = "vulkano"
    /\ SelOff
    /\ ChainOff
    /\ MainOff
    /\ pc = "Idle"
    /\ turn = "events"
    /\ control_flow = "Poll"
    /\ recreate_swapchain = FALSE
    /\ previous_frame_end = Some("now")
    /\ window_size \in {size \in WindowSizes : SupportedDimensions(size)}
    /\ \E n \in 1..MaxImages :
        swap_chain = [id |-> 0, dimensions |-> window_size, num_images |-> n]
    /\ frame_buffers = SetupFrameBuffers(Images(swap_chain))
    /\ viewport = SetupViewport(Images(swap_chain))
    /\ resize_pending = FALSE
    /\ acquired = None
    /\ command_buffer = None
    /\ ops = << >>
    /\ last_ops = << >>
    /\ recreation = << >>
    /\ future = None

Next ==
    \/ CloseRequested /\ UNCHANGED <<backend, selVars, chainVars, mainVars>>
    \/ Resized /\ UNCHANGED <<backend, selVars, chainVars, mainVars>>
    \/ WindowChanges /\ UNCHANGED <<backend, selVars, chainVars, mainVars>>
    \/ RedrawEventsCleared /\ UNCHANGED <<backend, selVars, chainVars, mainVars>>
    \/ SkipRecreate /\ UNCHANGED <<backend, selVars, chainVars, mainVars>>
    \/ RecreateOk /\ UNCHANGED <<backend, selVars, chainVars, mainVars>>
    \/ RecreateUnsupported /\ UNCHANGED <<backend, selVars, chainVars, mainVars>>
    \/ RecreatePanic /\ UNCHANGED <<backend, selVars, chainVars, mainVars>>
    \/ AcquireOk /\ UNCHANGED <<backend, selVars, chainVars, mainVars>>
    \/ AcquireOutOfDate /\ UNCHANGED <<backend, selVars, chainVars, mainVars>>
    \/ AcquirePanic /\ UNCHANGED <<backend, selVars, chainVars, mainVars>>
    \/ Record /\ UNCHANGED <<backend, selVars, chainVars, mainVars>>
    \/ RecordPanic /\ UNCHANGED <<backend, selVars, chainVars, mainVars>>
    \/ ExecutePanic /\ UNCHANGED <<backend, selVars, chainVars, mainVars>>
    \/ FlushOk /\ UNCHANGED <<backend, selVars, chainVars, mainVars>>
    \/ FlushOutOfDate /\ UNCHANGED <<backend, selVars, chainVars, mainVars>>
    \/ FlushFailed /\ UNCHANGED <<backend, selVars, chainVars, mainVars>>
    \/ NextTurn /\ UNCHANGED <<backend, selVars, chainVars, mainVars>>
    \/ LoopDestroyed /\ UNCHANGED <<backend, selVars, chainVars, mainVars>>

Spec == Init /\ [][Next]_vars

\* The closure runs to its end: a RedrawEventsCleared arm that has started
\* takes its next step.
LiveSpec == Spec /\ WF_vars(HandlerStep /\ UNCHANGED <<backend, selVars, chainVars, mainVars>>)

\* ---- MainLoopSpec: main_loop from its start to the end of the program --

MainLoopInit ==
    /\ backend = "ash"
    /\ SelOff
    /\ ChainOff
    /\ LoopOff
    /\ mainPc = "start"
    /\ validation \in BOOLEAN
    /\ debug_utils = None
    /\ alive = {}
    /\ destroyed = << >>
    /\ swapchain_image_views = << >>
    /\ shutdown_step = 0
    /\ redraw_requested = FALSE
    /\ draws = 0
    /\ close_requested = FALSE

MainLoopNext ==
    \/ CreateInstance /\ UNCHANGED <<backend, selVars, chainVars, loopVars>>
    \/ CreateSurface /\ UNCHANGED <<backend, selVars, chainVars, loopVars>>
    \/ MainLoopCreateDevice /\ UNCHANGED <<backend, selVars, chainVars, loopVars>>
    \/ MainLoopCreateSwapchain /\ UNCHANGED <<backend, selVars, chainVars, loopVars>>
    \/ RunEventLoop /\ UNCHANGED <<backend, selVars, chainVars, frameVars>>
    \/ MainLoopCloseRequested /\ UNCHANGED <<backend, selVars, chainVars, frameVars>>
    \/ MainEventsCleared /\ UNCHANGED <<backend, selVars, chainVars, frameVars>>
    \/ RedrawRequested /\ UNCHANGED <<backend, selVars, chainVars, frameVars>>
    \/ MainLoopRedrawEventsCleared /\ UNCHANGED <<backend, selVars, chainVars, frameVars>>
    \/ MainLoopNextTurn /\ UNCHANGED <<backend, selVars, chainVars, frameVars>>
    \/ MainLoopDestroyed /\ UNCHANGED <<backend, selVars, chainVars, frameVars>>
    \/ Shutdown /\ UNCHANGED <<backend, selVars, chainVars, frameVars>>

MainLoopSpec == MainLoopInit /\ [][MainLoopNext]_vars

\* ---- claims about device selection --------------------------------------

\* The rank table of the specification, section 4.1 step 3.
ClaimedRank ==
    "DISCRETE_GPU" :> 0 @@ "INTEGRATED_GPU" :> 1 @@ "VIRTUAL_GPU" :> 2
        @@ "CPU" :> 3 @@ "OTHER" :> 4

\* The 0-based indices of the families with graphics and presentation.
GoodFamilies(dev) ==
    {i \in 0..(Len(dev.queue_families) - 1) :
        /\ dev.queue_families[i + 1].graphics
        /\ dev.queue_families[i + 1].present}

HasRequiredExtensions(dev) == RequiredExtensions \subseteq dev.extensions

\* The enumeration positions of the adapters that pass both checks.
PassingAdapters ==
    {i \in 1..Len(physical_devices) :
        /\ HasRequiredExtensions(physical_devices[i])
        /\ GoodFamilies(physical_devices[i]) # {}}

SelectionDone == selPc # "start"

AllMissingExtension ==
    \A i \in 1..Len(physical_devices) :
        ~HasRequiredExtensions(physical_devices[i])

AllLackQueueFamily ==
    \A i \in 1..Len(physical_devices) : GoodFamilies(physical_devices[i]) = {}

\* C2: when every adapter misses a required extension, and when every
\* adapter lacks a graphics+present family, selection fails; the failure
\* is final: no device is created, nothing more runs (no retry) and the
\* event loop is not entered.
C2_NoCompatibleDeviceIsFatal ==
    /\ (SelectionDone /\ (AllMissingExtension \/ AllLackQueueFamily)) =>
            /\ selPc = "failed"
            /\ selected = None
            /\ ~device_created
    /\ selPc = "failed" => (~device_created /\ ~ENABLED SelStep)
    /\ selPc = "loop" => device_created

\* Two adapters that have the extension, neither with a suitable family:
\* selection failed.
C2_Witness ==
    /\ selPc = "failed"
    /\ Len(physical_devices) = MaxAdapters
    /\ ~AllMissingExtension
    /\ \A i \in 1..Len(physical_devices) :
            HasRequiredExtensions(physical_devices[i])
    /\ AllLackQueueFamily

ChainBuilt == chainPc \in {"created", "resized", "recreated"}

\* min_image_count + 1, clamped down to a nonzero max_image_count, as the
\* specification states it (section 4.2), over the unbounded integers.
ClaimedImageCount(cap) ==
    IF cap.max_image_count # 0 /\ cap.min_image_count + 1 > cap.max_image_count
    THEN cap.max_image_count
    ELSE cap.min_image_count + 1

\* C4: every chain that is created or recreated asks for
\* min_image_count + 1 images, clamped down to max_image_count when that
\* is nonzero, for every pair of counts.
C4_ImageCountIsMinPlusOneClamped ==
    ChainBuilt =>
        Unwrap(swapchain_create_info).min_image_count
            = ClaimedImageCount(surface_cap)

\* What holds of main_loop.rs alone: the count is as claimed unless
\* min_image_count is u32::MAX.
AshImageCountUnlessOverflow ==
    (ChainBuilt /\ backend = "ash" /\ surface_cap.min_image_count < U32_MAX) =>
        Unwrap(swapchain_create_info).min_image_count
            = ClaimedImageCount(surface_cap)

\* What holds of renderer.rs: two images, raised to the minimum or lowered
\* to a nonzero maximum, on creation; recreation keeps the count.
VulkanoImageCountIsTwoClamped ==
    (ChainBuilt /\ backend = "vulkano") =>
        LET n == Unwrap(swapchain_create_info).min_image_count
        IN  /\ n >= surface_cap.min_image_count
            /\ surface_cap.max_image_count # 0 => n <= surface_cap.max_image_count
            /\ n # 2 => n \in {surface_cap.min_image_count,
                               surface_cap.max_image_count}

\* x clamped to [lo, hi]: the value of the interval nearest to x
IsClamped(v, x, lo, hi) ==
    /\ lo <= v /\ v <= hi
    /\ \A u \in lo..hi :
        (IF v >= x THEN v - x ELSE x - v) <= (IF u >= x THEN u - x ELSE x - u)

\* C5: create_swapchain resolves the extent to the window size clamped
\* component-wise to [min_image_extent, max_image_extent] when both the
\* width and the height of the current extent are the sentinel, and to the
\* current extent as reported in every other case.
C5_ExtentResolution ==
    (ChainBuilt /\ backend = "ash") =>
        LET extent == Unwrap(swapchain_create_info).image_extent
            cur == surface_cap.current_extent
        IN  IF cur.width = U32_MAX /\ cur.height = U32_MAX
            THEN /\ IsClamped(extent.width, inner_size.width,
                              surface_cap.min_image_extent.width,
                              surface_cap.max_image_extent.width)
                 /\ IsClamped(extent.height, inner_size.height,
                              surface_cap.min_image_extent.height,
                              surface_cap.max_image_extent.height)
            ELSE extent = cur

\* The current extent is the sentinel in both dimensions, the window is
\* wider than the maximum and lower than the minimum, and the extent was
\* clamped in both.
C5_Witness ==
    /\ backend = "ash"
    /\ chainPc = "created"
    /\ surface_cap.current_extent = Extent2D(U32_MAX, U32_MAX)
    /\ inner_size.width > surface_cap.max_image_extent.width
    /\ inner_size.height < surface_cap.min_image_extent.height
    /\ Unwrap(swapchain_create_info).image_extent
        = Extent2D(surface_cap.max_image_extent.width,
                   surface_cap.min_image_extent.height)

\* The order of preference of the specification, section 4.2.
ClaimedModePriority == << "FIFO", "MAILBOX", "FIFO_RELAXED", "IMMEDIATE" >>

\* C6: for every non-empty list of supported modes, the mode selected is
\* the first of FIFO, MAILBOX, FIFO_RELAXED, IMMEDIATE that is supported,
\* or the first supported mode when none of the four is, and it is always
\* a supported mode.
C6_PresentModePriority ==
    (backend = "ash" /\ ChainBuilt) =>
        /\ surface_present_modes # << >>
        /\ LET mode == Unwrap(swapchain_create_info).present_mode
               preferred == {i \in 1..Len(ClaimedModePriority) :
                                Contains(surface_present_modes,
                                         ClaimedModePriority[i])}
           IN  /\ Contains(surface_present_modes, mode)
               /\ IF preferred # {}
                  THEN \E i \in preferred :
                        /\ mode = ClaimedModePriority[i]
                        /\ \A j \in preferred : i <= j
                  ELSE mode = surface_present_modes[1]

\* IMMEDIATE and MAILBOX are supported, listed in that order, FIFO is not:
\* MAILBOX was selected.
C6_Witness ==
    /\ backend = "ash"
    /\ chainPc = "created"
    /\ Len(surface_present_modes) >= 2
    /\ surface_present_modes[1] = "IMMEDIATE"
    /\ surface_present_modes[2] = "MAILBOX"
    /\ ~Contains(surface_present_modes, "FIFO")
    /\ Unwrap(swapchain_create_info).present_mode = "MAILBOX"

\* ---- claims about the frame loop ---------------------------------------

Has(log, op) == \E i \in 1..Len(log) : log[i] = op
EndsWith(log, op) == Len(log) > 0 /\ log[Len(log)] = op
IsAcquireOp(op) == op \in {"acquire_ok", "acquire_suboptimal", "acquire_out_of_date", "acquire_panic"}
AfterAcquire == {"record", "record_panic", "execute_panic", "submit_ok", "submit_out_of_date", "submit_failed"}

\* C7: when the acquire reports the chain out of date, the resize flag is
\* set and the iteration ends there: nothing is recorded, submitted or
\* presented. The iteration after it recreates the chain before it
\* attempts any acquire.
C7_OutOfDateAcquireSkipsFrame ==
    /\ Has(ops, "acquire_out_of_date") =>
        /\ EndsWith(ops, "acquire_out_of_date")
        /\ \A i \in 1..Len(ops) : ops[i] \notin AfterAcquire
        /\ recreate_swapchain
        /\ pc \in {"Idle", "Destroyed"}
        /\ command_buffer = None
    /\ EndsWith(last_ops, "acquire_out_of_date") =>
        /\ pc = "Acquire" => Has(ops, "recreate_ok")
        /\ \A i \in 1..Len(ops) :
            IsAcquireOp(ops[i]) => \E j \in 1..(i - 1) : ops[j] = "recreate_ok"

C7_Witness ==
    /\ EndsWith(last_ops, "acquire_out_of_date")
    /\ ops = << "cleanup", "recreate_ok", "acquire_ok" >>

\* C8: when the recreation at the start of an iteration answers
\* UnsupportedDimensions, the iteration does nothing else, the resize flag
\* stays set, and the loop keeps running: the handler returned, it did not
\* panic, and it left control_flow alone.
C8_UnsupportedDimensionsSkipsIteration ==
    /\ Has(ops, "recreate_unsupported") =>
        /\ ops = << "cleanup", "recreate_unsupported" >>
        /\ recreate_swapchain
        /\ pc \in {"Idle", "Destroyed"}
        /\ pc = "Destroyed" => control_flow = "Exit"
        /\ acquired = None
        /\ command_buffer = None
    /\ (pc = "Recreate" /\ recreate_swapchain /\ ~SupportedDimensions(window_size)) =>
        /\ ENABLED RecreateUnsupported
        /\ ~ENABLED RecreateOk

C8_Witness ==
    /\ ops = << "cleanup", "recreate_unsupported" >>
    /\ pc = "Idle" /\ turn = "events" /\ control_flow = "Poll"
    /\ recreate_swapchain

\* C10: no step takes the resize flag from set to clear but the successful
\* recreation of the chain; a failed recreation, a failed acquire and a
\* failed submission leave it set.
C10_FlagClearedOnlyByRecreation ==
    [][(recreate_swapchain /\ ~recreate_swapchain') =>
        /\ pc = "Recreate"
        /\ ops' = Append(ops, "recreate_ok")
        /\ swap_chain'.id # swap_chain.id
        /\ swap_chain'.dimensions = window_size]_vars

C10_Witness ==
    /\ recreate_swapchain
    /\ last_ops = << "cleanup", "recreate_ok", "acquire_out_of_date" >>
    /\ ops = << "cleanup", "recreate_unsupported" >>

\* ---- C9: recreation is retried until it succeeds -----------------------

RecreateOps == {"recreate_ok", "recreate_unsupported", "recreate_panic"}

\* every iteration that reaches line 181 with the flag set attempts the
\* recreation before anything else
FlagSetIterationRecreates ==
    [][(pc = "Recreate" /\ recreate_swapchain /\ pc' # "Recreate") =>
        \E op \in RecreateOps : ops' = Append(ops, op)]_vars

\* iterations keep being triggered
IterationsKeepComing == []<>(pc = "Recreate")

\* the window eventually keeps a supported size
WindowStaysValid == <>[]SupportedDimensions(window_size)

\* from some point on the acquire no longer reports out-of-date and the
\* submission no longer fails
DriverSettles ==
    <>[](/\ ~Has(ops, "acquire_out_of_date")
         /\ ~Has(ops, "submit_out_of_date")
         /\ ~Has(ops, "submit_failed"))

FramePresented == EndsWith(ops, "submit_ok")

SubmitOps == {"submit_ok", "submit_out_of_date", "submit_failed"}

\* C11: after an acquire that succeeds but reports suboptimal, the resize
\* flag is set and the iteration goes on with the acquired image: it does
\* not return before it has recorded and submitted (with the present).
\* The iteration after it attempts the recreation before any acquire.
C11_SuboptimalProceedsThenRecreates ==
    /\ Has(ops, "acquire_suboptimal") =>
        /\ recreate_swapchain
        /\ acquired # None
        /\ pc \in {"Record", "Submit", "Panicked"} \/
            (/\ pc \in {"Idle", "Destroyed"}
             /\ Len(ops) = Len(SelectSeq(ops, LAMBDA op : op \notin SubmitOps)) + 1
             /\ ops[Len(ops)] \in SubmitOps
             /\ ops[Len(ops) - 1] = "record"
             /\ command_buffer # None
             /\ Unwrap(command_buffer).frame_buffer.image.index
                    = Unwrap(acquired).image_num)
    /\ (Has(last_ops, "acquire_suboptimal") /\ Len(ops) > 0) =>
        /\ pc = "Recreate" => recreate_swapchain
        /\ Len(ops) >= 2 => ops[2] \in RecreateOps
        /\ \A i \in 1..Len(ops) :
            IsAcquireOp(ops[i]) => ops[i - 1] = "recreate_ok"

C11_Witness ==
    /\ last_ops = << "cleanup", "acquire_suboptimal", "record", "submit_ok" >>
    /\ ops = << "cleanup", "recreate_ok", "acquire_ok" >>

\* ---- C12: the outcome of the submission --------------------------------

ClaimedTeardownRank ==
    "image_view" :> 1 @@ "swapchain" :> 2 @@ "surface" :> 3 @@ "device" :> 4
    @@ "debug_utils_messenger" :> 5 @@ "instance" :> 6

\* C13: teardown destroys the image views first, then the chain, the
\* surface, the device, the debug messenger if one was installed, and the
\* instance: at every moment of shutdown the destroy calls made so far are
\* in this order, and every object still alive comes later in the order
\* than every object already destroyed.
C13_TeardownOrder ==
    /\ \A i, j \in 1..Len(destroyed) :
        i < j => ClaimedTeardownRank[destroyed[i].kind]
                    <= ClaimedTeardownRank[destroyed[j].kind]
    /\ \A i \in 1..Len(destroyed) : \A object \in alive :
        ClaimedTeardownRank[object.kind] > ClaimedTeardownRank[destroyed[i].kind]
    /\ mainPc = "exited" =>
        (Object("debug_utils_messenger", 0) \in Range(destroyed)) = validation

C13_Witness ==
    /\ mainPc = "exited"
    /\ validation
    /\ Len(destroyed) = MaxImages + 5
    /\ destroyed[1].kind = "image_view"
    /\ destroyed[Len(destroyed)].kind = "instance"
NoDuplicates(seq) == \A i, j \in 1..Len(seq) : seq[i] = seq[j] => i = j

\* C14: on every way the program ends, by the close event or by a panic,
\* teardown has run once: every object that was created has been destroyed
\* exactly once and none is left.
C14_TeardownOnEveryExit ==
    mainPc \in {"exited", "panicked"} =>
        /\ alive = {}
        /\ NoDuplicates(destroyed)

\* What main_loop does do: when the loop ends through ControlFlow::Exit,
\* shutdown has destroyed every created object exactly once.
TeardownOnceAfterExit ==
    mainPc = "exited" =>
        /\ alive = {}
        /\ NoDuplicates(destroyed)
        /\ Range(destroyed) =
            Range(swapchain_image_views) \cup
            {Object(kind, 0) : kind \in {"swapchain", "surface", "device", "instance"}}
            \cup (IF validation THEN {Object("debug_utils_messenger", 0)} ELSE {})
\* ---- C15: the replacement of the chain ---------------------------------

Before(log, first, second) ==
    \E i, j \in 1..Len(log) : i < j /\ log[i] = first /\ log[j] = second

\* C15: in every replacement of the chain the frame buffers of the old
\* chain are released first, then the old chain, and only then is the new
\* chain built: the old frame buffers and the new chain never exist
\* together.
C15_OldChainReleasedBeforeNewIsBuilt ==
    \A i \in 1..Len(recreation) :
        recreation[i].op = "build_chain" =>
            LET new == recreation[i].chain
                old == 1 - new
            IN  /\ Before(recreation,
                          [op |-> "release_frame_buffers", chain |-> old],
                          [op |-> "release_chain", chain |-> old])
                /\ Before(recreation,
                          [op |-> "release_chain", chain |-> old],
                          recreation[i])
\* ---- C16: the loop stops only on the close request --------------------

\* C16: the loop never ends by itself: it is told to exit, and shutdown
\* runs, only after a CloseRequested event has been received.
C16_LoopStopsOnlyOnClose ==
    (control_flow = "Exit" \/ mainPc \in {"shutdown", "exited"})
        => close_requested
\* ---- C17: cooperative cancellation -------------------------------------

\* C17: once CloseRequested has set ControlFlow::Exit, no acquire and no
\* submission (with its present) is issued any more.
C17_NoFrameAfterStopSignal ==
    [][control_flow = "Exit" =>
        ~(/\ ops' # ops
          /\ Len(ops') > 0
          /\ \/ IsAcquireOp(ops'[Len(ops')])
             \/ ops'[Len(ops')] \in SubmitOps)]_vars

\* What the loop does keep: the stop signal arrives and the loop ends only
\* between iterations, never in the middle of one.
NoMidFrameCancellation ==
    [][(control_flow' # control_flow \/ (pc' = "Destroyed" /\ pc # "Destroyed"))
        => pc = "Idle"]_vars
\* ---- C18: the draw callback --------------------------------------------

\* C18: app.draw is called for every frame that is rendered, and only for
\* such a frame: an iteration that has acquired an image and recorded its
\* commands has called it, and it is never called without an acquired
\* image.
C18_DrawOncePerRenderedFrame ==
    /\ Has(ops, "record") => draws >= 1
    /\ draws >= 1 => (acquired # None /\ Has(ops, "record"))
\* ---- C19: the one previous-frame signal --------------------------------

CountOps(log, set) == Len(SelectSeq(log, LAMBDA op : op \in set))

\* C19: previous_frame_end is present whenever an iteration starts and
\* until its submission, whatever the iterations before it did: the
\* cleanup of line 178 never finds it empty. An iteration takes it at most
\* once, for its one submission, and the handler never returns with it
\* empty.
C19_OnePreviousFrameEnd ==
    /\ pc \in {"Idle", "Recreate", "Acquire", "Record", "Submit", "Destroyed"}
        => previous_frame_end \in {Some("now"), Some("fence")}
    /\ ~Has(ops, "cleanup_panic")
    /\ CountOps(ops, SubmitOps \cup {"execute_panic"}) <= 1
    /\ future # None =>
        /\ CountOps(ops, SubmitOps) = 1
        /\ Some(Unwrap(future)[1].on[1].previous_frame_end)
                \in {Some("now"), Some("fence")}

C19_Witness ==
    /\ pc = "Submit"
    /\ last_ops = << "cleanup", "acquire_ok", "record", "submit_failed" >>
    /\ previous_frame_end = Some("now")
    /\ Len(ops) = 3
\* ---- C20: the order of a submission ------------------------------------

\* what a submission of the iteration before this one left as the
\* previous-frame state; an iteration that was skipped left it as it was
LeftByLastIteration ==
    IF EndsWith(last_ops, "submit_ok") THEN {"fence"}
    ELSE IF EndsWith(last_ops, "submit_out_of_date")
            \/ EndsWith(last_ops, "submit_failed") THEN {"now"}
    ELSE {"now", "fence"}

\* C20: every submission first waits on the previous frame's signal and on
\* the acquire of this iteration's image, then executes the commands
\* recorded in this iteration, then presents the acquired image on the
\* chain, then signals the new fence. The signal it waits on is the
\* previous_frame_end of that moment: the fence of the frame before when
\* that frame was submitted, the completed now() that replaced it when its
\* submission failed.
C20_SubmissionOrder ==
    /\ [](future # None =>
        /\ acquired # None /\ command_buffer # None
        /\ Len(Unwrap(future)) = 4
        /\ [i \in 1..4 |-> Unwrap(future)[i].stage]
                = << "wait", "execute", "present", "signal_fence" >>
        /\ \E previous \in LeftByLastIteration :
            Unwrap(future)[1].on =
                << [previous_frame_end |-> previous],
                   [acquire_future |-> Unwrap(acquired)] >>
        /\ Unwrap(future)[2].on = Unwrap(command_buffer)
        /\ Unwrap(future)[3].on =
                [chain |-> swap_chain.id,
                 image_num |-> Unwrap(acquired).image_num]
        /\ Unwrap(acquired).chain = swap_chain.id
        /\ Unwrap(command_buffer).frame_buffer.image.chain = swap_chain.id)
    /\ [][(future = None /\ future' # None) =>
            /\ previous_frame_end # None
            /\ Unwrap(future')[1].on[1]
                = [previous_frame_end |-> Unwrap(previous_frame_end)]]_vars

C20_Witness ==
    /\ future # None
    /\ EndsWith(last_ops, "submit_ok")
    /\ EndsWith(ops, "submit_ok")
    /\ Unwrap(future)[1].on[1].previous_frame_end = "fence"
\* C21: a Resized event only sets the recreation flag and leaves the chain,
\* the frame buffers, the viewport and previous_frame_end as they were; the
\* chain, the frame buffers and the viewport change only in the recreation
\* step, which is the first step of an iteration after the cleanup, before
\* any acquire, so never between the acquire and the submission.
C21_ResizeIsDeferred ==
    /\ [][(resize_pending /\ ~resize_pending') =>
            /\ recreate_swapchain'
            /\ UNCHANGED <<swap_chain, frame_buffers, viewport,
                           previous_frame_end, ops, pc>>]_vars
    /\ [][(swap_chain' # swap_chain \/ frame_buffers' # frame_buffers
                \/ viewport' # viewport) =>
            /\ pc = "Recreate" /\ pc' = "Acquire"
            /\ recreate_swapchain
            /\ acquired = None /\ future = None
            /\ ops = << "cleanup" >>
            /\ ops' = << "cleanup", "recreate_ok" >>]_vars

\* The Resized event of a window of another size than the chain's has been
\* handled: the flag is set and the chain still has its old dimensions.
C21_Witness ==
    /\ pc = "Idle" /\ turn = "events"
    /\ ~resize_pending
    /\ recreate_swapchain
    /\ swap_chain.dimensions # window_size
    /\ viewport = swap_chain.dimensions
    /\ Has(last_ops, "submit_ok")
\* C22: after creation and after every successful recreation the sequence
\* of frame buffers has exactly one entry per image of the current chain,
\* entry i being built on image i of that chain, so every image index the
\* acquire returns on the current chain refers to an existing frame buffer
\* of that chain and the recording never indexes past the end.
C22_OneRenderTargetPerImage ==
    /\ Len(frame_buffers) = swap_chain.num_images
    /\ \A i \in 1..Len(frame_buffers) :
        /\ frame_buffers[i].image.chain = swap_chain.id
        /\ frame_buffers[i].image.index = i - 1
    /\ acquired # None =>
        /\ Unwrap(acquired).chain = swap_chain.id
        /\ Unwrap(acquired).image_num + 1 \in DOMAIN frame_buffers
    /\ command_buffer # None =>
        /\ Unwrap(command_buffer).frame_buffer.image.chain = swap_chain.id
        /\ Unwrap(command_buffer).frame_buffer.image.index
                = Unwrap(acquired).image_num
    /\ (pc = "Panicked" /\ EndsWith(ops, "record_panic")) =>
        Unwrap(acquired).image_num + 1 \in DOMAIN frame_buffers

\* The last image of a recreated chain of MaxImages images was acquired and
\* its frame buffer recorded into.
C22_Witness ==
    /\ Has(ops, "recreate_ok")
    /\ swap_chain.num_images = MaxImages
    /\ acquired # None
    /\ Unwrap(acquired).image_num = MaxImages - 1
    /\ command_buffer # None
    /\ Unwrap(command_buffer).frame_buffer
            = [image |-> [chain |-> swap_chain.id, index |-> MaxImages - 1,
                          dimensions |-> window_size]]
\* C23: whenever a frame is recorded, the viewport it is recorded with has
\* the dimensions of the images of the chain its image was acquired from;
\* the viewport is replaced together with the frame buffers by every
\* successful recreation, so it never stays at the extent of a replaced
\* chain.
C23_ViewportIsChainExtent ==
    /\ [](viewport = swap_chain.dimensions)
    /\ [](command_buffer # None =>
            /\ Unwrap(acquired).chain = swap_chain.id
            /\ Unwrap(command_buffer).viewport = swap_chain.dimensions
            /\ Unwrap(command_buffer).viewport
                = Unwrap(command_buffer).frame_buffer.image.dimensions)
    /\ [][swap_chain' # swap_chain =>
            /\ viewport' = swap_chain'.dimensions
            /\ \A i \in DOMAIN frame_buffers' :
                frame_buffers'[i].image.dimensions = viewport']_vars

\* A frame was recorded on a recreated chain while the window already has
\* another size again: the viewport is the chain's extent, not the window's.
C23_Witness ==
    /\ Has(ops, "recreate_ok")
    /\ EndsWith(ops, "record")
    /\ command_buffer # None
    /\ window_size # swap_chain.dimensions
    /\ Unwrap(command_buffer).viewport = swap_chain.dimensions
\* C24: a recreation that fails with UnsupportedDimensions changes nothing:
\* the chain, the frame buffers, the viewport, previous_frame_end and the
\* flag are what they were before the attempt, and the successful
\* recreation that follows is made from that same old chain.
C24_UnsupportedRecreationChangesNothing ==
    /\ [][EndsWith(ops', "recreate_unsupported") /\ ops' # ops =>
            /\ UNCHANGED <<swap_chain, frame_buffers, viewport,
                           previous_frame_end, recreate_swapchain,
                           recreation, acquired, command_buffer, future>>
            /\ previous_frame_end # None
            /\ pc' = "Idle"]_vars
    /\ [][(EndsWith(last_ops, "recreate_unsupported")
                /\ EndsWith(ops', "recreate_ok") /\ ops' # ops) =>
            /\ swap_chain'.id = 1 - swap_chain.id
            /\ recreation'[1] = [op |-> "build_chain", chain |-> swap_chain'.id]
            /\ recreation'[2] = [op |-> "release_chain", chain |-> swap_chain.id]
            /\ swap_chain'.num_images = swap_chain.num_images]_vars

\* An iteration whose recreation was refused is followed by one whose
\* recreation succeeds.
C24_Witness ==
    /\ last_ops = << "cleanup", "recreate_unsupported" >>
    /\ EndsWith(ops, "recreate_ok")
    /\ Len(frame_buffers) = MaxImages
    /\ previous_frame_end # None
\* the place of an operation in the order recreation, acquire, recording,
\* submission with its present
StepOrder(op) ==
    IF op \in {"cleanup", "cleanup_panic"} THEN 0
    ELSE IF op \in RecreateOps THEN 1
    ELSE IF IsAcquireOp(op) THEN 2
    ELSE IF op \in {"record", "record_panic"} THEN 3
    ELSE 4

Presents(submission) ==
    SelectSeq(submission, LAMBDA stage : stage.stage = "present")

\* C25: an iteration issues at most one recreation, at most one acquire, at
\* most one submission and at most one present, in that order. A present is
\* issued only after a successful acquire of the same iteration, for the
\* image index that acquire returned and on the chain it was made on.
C25_OneOfEachInOrder ==
    /\ [](\A i, j \in 1..Len(ops) : i < j => StepOrder(ops[i]) < StepOrder(ops[j]))
    /\ [](CountOps(ops, RecreateOps) <= 1
            /\ CountOps(ops, {"acquire_ok", "acquire_suboptimal",
                              "acquire_out_of_date", "acquire_panic"}) <= 1
            /\ CountOps(ops, SubmitOps) <= 1)
    /\ [](future # None <=> \E op \in SubmitOps : Has(ops, op))
    /\ [](future # None =>
            /\ Len(Presents(Unwrap(future))) = 1
            /\ Has(ops, "acquire_ok") \/ Has(ops, "acquire_suboptimal")
            /\ acquired # None
            /\ Presents(Unwrap(future))[1].on.image_num
                    = Unwrap(acquired).image_num
            /\ Presents(Unwrap(future))[1].on.chain = Unwrap(acquired).chain)
    /\ [][acquired' # acquired =>
            \/ acquired' = None /\ ops' = << "cleanup" >>
            \/ acquired' = None /\ ops' = << "cleanup_panic" >>
            \/ /\ acquired = None /\ future = None
               /\ EndsWith(ops', "acquire_ok") \/ EndsWith(ops', "acquire_suboptimal")
               /\ Unwrap(acquired').chain = swap_chain.id]_vars
    /\ [][future' # future =>
            \/ future' = None /\ Len(ops') = 1
            \/ future = None /\ pc = "Submit" /\ \E op \in SubmitOps : EndsWith(ops', op)]_vars

\* An iteration that did all four: it recreated the chain, acquired the
\* last image, recorded, and submitted with the present of that image.
C25_Witness ==
    /\ ops = << "cleanup", "recreate_ok", "acquire_suboptimal", "record",
                "submit_ok" >>
    /\ Unwrap(acquired).image_num = MaxImages - 1
    /\ Presents(Unwrap(future))[1].on
            = [chain |-> 1, image_num |-> MaxImages - 1]
AbsorbedFailures ==
    {"recreate_unsupported", "acquire_out_of_date", "submit_out_of_date",
     "submit_failed"}

FatalFailures == {"recreate_panic", "acquire_panic"}

OtherBackendSelects(devs) ==
    IF backend = "ash" THEN VulkanoSelect(devs)
    ELSE IF AshCreateDevicePanics(devs) THEN None
    ELSE AshSelect(devs)

\* C27: for every list of adapters the selection of main_loop.rs and the
\* selection of renderer.rs choose the same adapter and the same queue
\* family index, and one fails exactly when the other fails.
C27_BackendsSelectTheSame ==
    SelectionDone =>
        /\ selected = OtherBackendSelects(physical_devices)
        /\ (selPc = "failed") <=> (OtherBackendSelects(physical_devices) = None)

\* The two selections agree whenever no presentation-support query that
\* main_loop.rs makes fails; and whenever renderer.rs fails, main_loop.rs
\* fails too.
SelectionsAgreeWhenQueriesAnswered ==
    /\ (SelectionDone /\ ~AshCreateDevicePanics(physical_devices)) =>
            /\ selected = AshSelect(physical_devices)
            /\ selected = VulkanoSelect(physical_devices)
    /\ VulkanoSelect(physical_devices) = None =>
            (AshCreateDevicePanics(physical_devices)
                \/ AshSelect(physical_devices) = None)

\* renderer.rs selected an adapter for which main_loop.rs panics.
SelectionsDisagreeReached ==
    /\ backend = "vulkano"
    /\ selPc = "loop"
    /\ selected # None
    /\ AshCreateDevicePanics(physical_devices)

====
